---- MODULE Spec2Model ----
(***************************************************************************)
(* virtkvm: a host-side daemon that moves USB devices, display inputs and  *)
(* side-effect commands between the host and one libvirt guest.            *)
(*                                                                         *)
(* The model follows src/virtkvm/__init__.py: the Switch engine and the    *)
(* Virt adapter as a step machine per calling thread (one step per         *)
(* external call: subprocess, XMLDesc query, attachDevice, detachDevice),  *)
(* the /switch HTTP handler and the evdev hotkey loop.                     *)
(***************************************************************************)
EXTENDS Integers, Sequences, FiniteSets, TLC

(* ------------------------------ bounds -------------------------------- *)

\* Switch calls started in one run of the engine specifications.
MaxCalls == 3

(* --------------------------- configuration ---------------------------- *)

\* The two threads main() starts: Flask's app.run and evdev_loop.
Threads == {"http", "evdev"}

\* data["devices"] of the YAML file: vendor, product and the optional key
\* ("unset" when the key is absent, read with d.get("optional", False)).
DeviceData ==
    { << [vendor |-> 1133, product |-> 49291, optional |-> "unset"],
         [vendor |-> 1133, product |-> 49271, optional |-> "true"] >>,
      << [vendor |-> 1133, product |-> 49271, optional |-> "true"],
         [vendor |-> 1452, product |-> 613, optional |-> "false"],
         [vendor |-> 1133, product |-> 49291, optional |-> "unset"] >> }

\* data["displays"].
Displays ==
    << [bus |-> 4, feature |-> 96, host |-> 15, guest |-> 17],
       [bus |-> 5, feature |-> 96, host |-> 15, guest |-> 18] >>

\* data["commands"]["host"] and data["commands"]["guest"].
HostCommands == << "host-cmd" >>

GuestCommands == << "guest-cmd" >>

\* evdev.ecodes.KEY_LEFTCTRL, KEY_RIGHTCTRL, KEY_LEFTMETA, KEY_RIGHTMETA.
KEY_LEFTCTRL == 29

KEY_RIGHTCTRL == 97

KEY_LEFTMETA == 125

KEY_RIGHTMETA == 126

Keys == {KEY_LEFTCTRL, KEY_RIGHTCTRL, KEY_LEFTMETA, KEY_RIGHTMETA}

\* event.value of a key event: 0 release, 1 press, 2 autorepeat.
KeyValues == {0, 1, 2}

\* data["http"]["security"]["secret"], as character codes ("s3").
Secret == << 115, 51 >>

\* The X-Secret header a request may carry: missing, or its characters.
\* Werkzeug hands header bytes over decoded as latin-1, so a character may
\* lie outside ASCII (233).
SecretHeaders ==
    { [present |-> FALSE, value |-> << >>] } \cup
    { [present |-> TRUE, value |-> v] :
        v \in { << >>, << 115 >>, << 115, 51 >>, << 115, 52 >>,
                << 115, 51, 120 >>, << 115, 233 >> } }

\* request.json: no JSON body, or an object with its "to" and
\* "skip_optional" members ("absent" when the key is missing). A "to"
\* member is any JSON value: a string, or an array, written "[host]".
NoBody == [json |-> FALSE, to |-> "absent", skip_optional |-> "absent"]

Bodies ==
    { NoBody } \cup
    [json : {TRUE}, to : {"absent", "host", "guest", "tablet", "[host]"},
     skip_optional : {"absent", "true", "false"}]

NoRequest == [secret |-> [present |-> FALSE, value |-> << >>], body |-> NoBody]

NoResponse == [status |-> 0, success |-> FALSE, error |-> "none"]

(* ------------------- hex formatting and parsing ----------------------- *)

\* hex(n) without its "0x" prefix, as a sequence of digit values.
RECURSIVE hex(_)
hex(n) == IF n < 16 THEN << n >> ELSE Append(hex(n \div 16), n % 16)

\* int(s, 16) on the digits that follow the "0x" prefix.
RECURSIVE int16(_)
int16(s) ==
    IF s = << >> THEN 0
    ELSE 16 * int16(SubSeq(s, 1, Len(s) - 1)) + s[Len(s)]

\* libvirt prints a vendor or product id of the live XML as 0x%04x.
RECURSIVE Pad4(_)
Pad4(s) == IF Len(s) >= 4 THEN s ELSE Pad4(<< 0 >> \o s)

(* ------------------------- live hostdev list -------------------------- *)

\* A PCI hostdev (a passed-through GPU, say): its source holds an address.
PciDev == [type |-> "pci", vendor |-> << >>, product |-> << >>]

\* The hostdev element libvirt reports for a USB device given by ids.
UsbDev(ids) ==
    [type |-> "usb", vendor |-> Pad4(hex(ids[1])), product |-> Pad4(hex(ids[2]))]

\* A USB device passed to the guest that the configuration does not name.
ForeignIds == << 1133, 2085 >>

\* The hostdev lists a run may start from.
InitialHostdevs ==
    { << >>,
      << PciDev >>,
      << PciDev, PciDev >>,
      << PciDev, UsbDev(ForeignIds) >>,
      << UsbDev(<< 1133, 49291 >>) >>,
      << UsbDev(<< 1133, 49271 >>), UsbDev(<< 1133, 49291 >>) >>,
      << PciDev, UsbDev(<< 1452, 613 >>), UsbDev(ForeignIds),
         UsbDev(<< 1133, 49271 >>) >> }

VARIABLES
    devices_data,   \* data["devices"], fixed at start-up
    hostdevs,       \* the domain's live <hostdev> elements, in document order
    call,           \* per thread: the switch call it is executing
    last,           \* the switch call that finished most recently
    ncalls,         \* switch calls started so far
    dblAttach,      \* ids sent an attach request while attached
    pressed_keys,   \* evdev_loop: key code -> pressed (an absent key reads False)
    triggered,      \* evdev_loop: the ctrl combo has been seen down
    grabbed,        \* evdev_loop: control has been handed to the guest
    skip_optional,  \* evdev_loop: a meta key was down with the combo
    monPc,          \* evdev_loop: where the thread is
    devPresent,     \* the input device node exists and can be opened and read
    nevents,        \* key events read so far
    unplugs,        \* times the input device went away
    openFails,      \* failed open attempts of the latest reconnect loop
    stage,          \* progress of a hotkey gesture since the latest reconnect
    metaInCombo,    \* a meta key was recorded down during the current combo
    grabFires,      \* guest switches the monitor made since grabbed was clear
    lastGrab,       \* evdev_loop: what the latest no-data pass did about the grab
    phys,           \* key code -> the key is held down on the keyboard
    bothHeld,       \* both ctrl keys were held together since the monitor's latest guest switch
    security,       \* data["http"]["security"]: enabled and secret
    httpPc,         \* app_switch: where the request handler is
    request,        \* the /switch request being handled, or the latest one
    response,       \* the answer to it, once given
    nreqs           \* requests received so far

engineVars == << devices_data, hostdevs, call, last, ncalls, dblAttach >>

monVars ==
    << pressed_keys, triggered, grabbed, skip_optional, monPc, devPresent,
       nevents, unplugs, openFails, stage, metaInCombo, grabFires, lastGrab,
       phys, bothHeld >>

\* What the engine's own steps leave alone.
httpVars == << security, httpPc, request, response, nreqs >>

callerVars == << monVars, httpVars >>

vars == << engineVars, monVars, httpVars >>

(* ------------------------------ Config -------------------------------- *)

\* Config.devices
devices(data) == [i \in 1..Len(data) |-> << data[i].vendor, data[i].product >>]

\* d.get("optional", False)
get_optional(d) == d.optional = "true"

\* Config.devices_essential
devices_essential(data) ==
    LET ess == SelectSeq(data, LAMBDA d : ~get_optional(d))
    IN [i \in 1..Len(ess) |-> << ess[i].vendor, ess[i].product >>]

Range(s) == { s[i] : i \in 1..Len(s) }

(* ------------------------------- Virt --------------------------------- *)

\* xmltodict.parse(...)["domain"]["devices"]: the "hostdev" key is absent
\* when the domain has no hostdev element, holds one dict when it has one
\* element, and a list when it has several.
xmltodict_parse(live) ==
    IF Len(live) = 0 THEN [kind |-> "absent", val |-> << >>]
    ELSE IF Len(live) = 1 THEN [kind |-> "dict", val |-> live]
    ELSE [kind |-> "list", val |-> live]

\* Virt.get_devices: subscripting the absent key raises KeyError; iterating
\* the single dict yields its keys, and dev["@type"] on a str raises
\* TypeError.
get_devices(live) ==
    LET h == xmltodict_parse(live)
    IN IF h.kind = "absent" THEN [err |-> "KeyError", devs |-> << >>]
       ELSE IF h.kind = "dict" THEN [err |-> "TypeError", devs |-> << >>]
       ELSE [err |-> "none",
             devs |-> SelectSeq(h.val, LAMBDA dev : dev.type = "usb")]

\* Virt.get_device_ids
get_device_ids(desc) == << int16(desc.vendor), int16(desc.product) >>

\* Virt.get_device_by_ids: found is FALSE for None.
get_device_by_ids(live, ids) ==
    LET r == get_devices(live)
        hit == SelectSeq(r.devs, LAMBDA dev : get_device_ids(dev) = ids)
    IN [err |-> r.err, found |-> r.err = "none" /\ hit # << >>]

\* The ids of the USB hostdevs of the live list.
AttachedIds(live) ==
    { get_device_ids(live[i]) : i \in { j \in 1..Len(live) : live[j].type = "usb" } }

\* The hostdev element the attach XML fragment of lines 95-104 describes.
AttachXml(ids) == UsbDev(ids)

Remove(s, x) ==
    LET i == CHOOSE j \in 1..Len(s) : s[j] = x
    IN SubSeq(s, 1, i - 1) \o SubSeq(s, i + 1, Len(s))

(* ------------------------------ Switch -------------------------------- *)

NoCall ==
    [op |-> "none", skip |-> FALSE, err |-> "none", after |-> << >>,
     envfail |-> FALSE]

Idle ==
    [op |-> "none", skip |-> FALSE, pc |-> "idle", i |-> 0, todo |-> << >>,
     err |-> "none", reqs |-> << >>, live0 |-> << >>, prev |-> NoCall,
     envfail |-> FALSE, log |-> << >>, soft |-> FALSE]

\* The argument list of line 120-124 for a display and an input code, and
\* the command line of line 128.
DdcutilArgs(display, ident) ==
    << "ddcutil", display.bus, display.feature, ident >>

ShellArgs(command) == << "sh", command >>

\* The frame after subprocess.call was made with `args` and returned rc.
Called(f, args, rc) ==
    [f EXCEPT !.log = Append(@, args),
              !.soft = @ \/ rc = "nonzero",
              !.envfail = @ \/ rc = "OSError"]

\* The device list a switch call passes to the adapter (lines 135 and 142).
Requested(skip) ==
    IF skip THEN devices_essential(devices_data) ELSE devices(devices_data)

Commands(op) == IF op = "host" THEN HostCommands ELSE GuestCommands

\* The frame at its next external call, past the loops that have run out.
RECURSIVE Norm(_)
Norm(f) ==
    IF f.pc = "displays" /\ f.i > Len(Displays)
    THEN Norm([f EXCEPT !.pc = "commands", !.i = 1])
    ELSE IF f.pc = "commands" /\ f.i > Len(Commands(f.op))
    THEN Norm([f EXCEPT !.pc = IF f.op = "guest" THEN "query" ELSE "snapshot",
                        !.i = 1])
    ELSE IF f.pc = "query" /\ f.i > Len(Requested(f.skip))
    THEN [f EXCEPT !.pc = "returned"]
    ELSE IF f.pc = "detach" /\ f.i > Len(f.todo)
    THEN [f EXCEPT !.pc = "returned"]
    ELSE f

Finished(f) == f.pc \in {"returned", "raised"}

Summary(f, live) ==
    [op |-> f.op, skip |-> f.skip, err |-> f.err, after |-> live,
     envfail |-> f.envfail]

\* The call of thread t goes on as frame f, the live list being `live`.
Proceed(t, f, live) ==
    LET g == Norm(f)
    IN /\ call' = [call EXCEPT ![t] = g]
       /\ last' = IF Finished(g) THEN Summary(g, live) ELSE last

\* The call of thread t raises e.
Raise(t, f, e, live) ==
    Proceed(t, [f EXCEPT !.pc = "raised", !.err = e], live)

\* A caller enters switch_to_host or switch_to_guest.
Enter(t, op, skip) ==
    /\ ncalls' = ncalls + 1
    /\ Proceed(t, [Idle EXCEPT !.op = op, !.skip = skip, !.pc = "displays",
                               !.i = 1, !.live0 = hostdevs, !.prev = last],
               hostdevs)

\* CallDccutil leaving the display loop at the first failure exit status.
CallDccutilStopsOnFailure(t) ==
    /\ call[t].pc = "displays"
    /\ LET f == call[t]
           display == Displays[f.i]
           args == DdcutilArgs(display, display[f.op])
       IN \E rc \in {"zero", "nonzero", "OSError"} :
             IF rc = "OSError"
             THEN Raise(t, Called(f, args, rc), "OSError", hostdevs)
             ELSE IF rc = "nonzero"
             THEN Proceed(t, [Called(f, args, rc) EXCEPT !.pc = "commands", !.i = 1],
                          hostdevs)
             ELSE Proceed(t, [Called(f, args, rc) EXCEPT !.i = @ + 1], hostdevs)
    /\ UNCHANGED << devices_data, hostdevs, ncalls, dblAttach, callerVars >>

\* Switch._call_dccutil for the i-th display, lines 131-132 and 138-139:
\* subprocess.call returns ddcutil's exit status, which the caller drops, or
\* raises OSError when the program cannot be run.
CallDccutil(t) ==
    /\ call[t].pc = "displays"
    /\ LET f == call[t]
           display == Displays[f.i]
           args == DdcutilArgs(display, display[f.op])
       IN \E rc \in {"zero", "nonzero", "OSError"} :
             IF rc = "OSError"
             THEN Raise(t, Called(f, args, rc), "OSError", hostdevs)
             ELSE Proceed(t, [Called(f, args, rc) EXCEPT !.i = @ + 1], hostdevs)
    /\ UNCHANGED << devices_data, hostdevs, ncalls, dblAttach, callerVars >>

\* Switch._call_commands for the i-th command, lines 133-134 and 140-141.
CallCommands(t) ==
    /\ call[t].pc = "commands"
    /\ LET f == call[t]
           args == ShellArgs(Commands(f.op)[f.i])
       IN \E rc \in {"zero", "nonzero", "OSError"} :
             IF rc = "OSError"
             THEN Raise(t, Called(f, args, rc), "OSError", hostdevs)
             ELSE Proceed(t, [Called(f, args, rc) EXCEPT !.i = @ + 1], hostdevs)
    /\ UNCHANGED << devices_data, hostdevs, ncalls, dblAttach, callerVars >>

\* AttachQuery with get_device_by_ids returning the first USB device of the
\* answer whatever its ids (the return outside the comparison).
AttachQueryAnyDevice(t) ==
    /\ call[t].pc = "query"
    /\ LET f == call[t]
           r == get_devices(hostdevs)
       IN IF r.err # "none" THEN Raise(t, f, r.err, hostdevs)
          ELSE IF r.devs # << >> THEN Proceed(t, [f EXCEPT !.i = @ + 1], hostdevs)
          ELSE Proceed(t, [f EXCEPT !.pc = "attach"], hostdevs)
    /\ UNCHANGED << devices_data, hostdevs, ncalls, dblAttach, callerVars >>

\* Virt.attach_devices, lines 93-94: the query for the i-th requested device.
AttachQuery(t) ==
    /\ call[t].pc = "query"
    /\ LET f == call[t]
           r == get_device_by_ids(hostdevs, Requested(f.skip)[f.i])
       IN IF r.err # "none" THEN Raise(t, f, r.err, hostdevs)
          ELSE IF r.found THEN Proceed(t, [f EXCEPT !.i = @ + 1], hostdevs)
          ELSE Proceed(t, [f EXCEPT !.pc = "attach"], hostdevs)
    /\ UNCHANGED << devices_data, hostdevs, ncalls, dblAttach, callerVars >>

\* Virt.attach_devices, lines 95-105: attachDevice. libvirt refuses a USB
\* device the domain already holds, and may refuse any request (the device
\* is not plugged in, the connection is lost).
AttachDevice(t) ==
    /\ call[t].pc = "attach"
    /\ LET f == call[t]
           ids == Requested(f.skip)[f.i]
           g == [f EXCEPT !.reqs = Append(@, << "attach", ids >>)]
           held == ids \in AttachedIds(hostdevs)
       IN /\ dblAttach' = IF held THEN dblAttach \cup {ids} ELSE dblAttach
          /\ \E ok \in IF held THEN {FALSE} ELSE BOOLEAN :
                IF ok
                THEN /\ hostdevs' = Append(hostdevs, AttachXml(ids))
                     /\ Proceed(t, [g EXCEPT !.pc = "query", !.i = @ + 1], hostdevs')
                ELSE /\ hostdevs' = hostdevs
                     /\ Raise(t, [g EXCEPT !.envfail = @ \/ ~held],
                              "libvirtError", hostdevs)
    /\ UNCHANGED << devices_data, ncalls, callerVars >>

\* Virt.detach_devices, lines 108-109: one query, then the devices of the
\* answer whose ids are in the requested list, in document order.
DetachQuery(t) ==
    /\ call[t].pc = "snapshot"
    /\ LET f == call[t]
           r == get_devices(hostdevs)
           sel == SelectSeq(r.devs,
                            LAMBDA dev : get_device_ids(dev) \in Range(Requested(f.skip)))
       IN IF r.err # "none" THEN Raise(t, f, r.err, hostdevs)
          ELSE Proceed(t, [f EXCEPT !.pc = "detach", !.i = 1, !.todo = sel], hostdevs)
    /\ UNCHANGED << devices_data, hostdevs, ncalls, dblAttach, callerVars >>

\* DetachDevice inside a try that drops the hypervisor's error and goes on
\* with the next device.
DetachDeviceKeepGoing(t) ==
    /\ call[t].pc = "detach"
    /\ LET f == call[t]
           dev == f.todo[f.i]
           g == [f EXCEPT !.reqs = Append(@, << "detach", get_device_ids(dev) >>)]
           held == dev \in Range(hostdevs)
       IN \E ok \in IF held THEN BOOLEAN ELSE {FALSE} :
             IF ok
             THEN /\ hostdevs' = Remove(hostdevs, dev)
                  /\ Proceed(t, [g EXCEPT !.i = @ + 1], hostdevs')
             ELSE /\ hostdevs' = hostdevs
                  /\ Proceed(t, [g EXCEPT !.i = @ + 1, !.envfail = @ \/ held],
                             hostdevs)
    /\ UNCHANGED << devices_data, ncalls, dblAttach, callerVars >>

\* Virt.detach_devices, lines 110-111: detachDevice. libvirt refuses a
\* device the domain no longer holds, and may refuse any request.
DetachDevice(t) ==
    /\ call[t].pc = "detach"
    /\ LET f == call[t]
           dev == f.todo[f.i]
           g == [f EXCEPT !.reqs = Append(@, << "detach", get_device_ids(dev) >>)]
           held == dev \in Range(hostdevs)
       IN \E ok \in IF held THEN BOOLEAN ELSE {FALSE} :
             IF ok
             THEN /\ hostdevs' = Remove(hostdevs, dev)
                  /\ Proceed(t, [g EXCEPT !.i = @ + 1], hostdevs')
             ELSE /\ hostdevs' = hostdevs
                  /\ Raise(t, [g EXCEPT !.envfail = @ \/ held],
                           "libvirtError", hostdevs)
    /\ UNCHANGED << devices_data, ncalls, dblAttach, callerVars >>

\* Switch.switch_to_host, entered by thread t.
switch_to_host(t, skip) == Enter(t, "host", skip)

\* Switch.switch_to_guest, entered by thread t.
switch_to_guest(t, skip) == Enter(t, "guest", skip)

(* ---------------------- the engine, called serially ------------------- *)

\* Switch.__init__ and the first lines of evdev_loop (174-178).
InitEngine ==
    /\ devices_data \in DeviceData
    /\ hostdevs \in InitialHostdevs
    /\ call = [t \in Threads |-> Idle]
    /\ last = NoCall
    /\ ncalls = 0
    /\ dblAttach = {}

InitMonitor ==
    /\ pressed_keys = [k \in Keys |-> FALSE]
    /\ triggered = FALSE
    /\ grabbed = FALSE
    /\ skip_optional = FALSE
    /\ monPc = "select"
    /\ devPresent = TRUE
    /\ nevents = 0
    /\ unplugs = 0
    /\ openFails = 0
    /\ stage = "none"
    /\ metaInCombo = FALSE
    /\ grabFires = 0
    /\ lastGrab = "none"
    /\ phys = [k \in Keys |-> FALSE]
    /\ bothHeld = FALSE

InitHttp ==
    /\ security \in [enabled : BOOLEAN, secret : {Secret}]
    /\ httpPc = "idle"
    /\ request = NoRequest
    /\ response = NoResponse
    /\ nreqs = 0

Init == InitEngine /\ InitMonitor /\ InitHttp

\* A caller starts a switch once no other call is running.
CallHost ==
    /\ ncalls < MaxCalls
    /\ \A t \in Threads : call[t].pc \in {"idle", "returned", "raised"}
    /\ \E skip \in BOOLEAN : switch_to_host("http", skip)
    /\ UNCHANGED << devices_data, hostdevs, dblAttach, callerVars >>

CallGuest ==
    /\ ncalls < MaxCalls
    /\ \A t \in Threads : call[t].pc \in {"idle", "returned", "raised"}
    /\ \E skip \in BOOLEAN : switch_to_guest("http", skip)
    /\ UNCHANGED << devices_data, hostdevs, dblAttach, callerVars >>

EngineStep ==
    \E t \in Threads :
        \/ CallDccutil(t)
        \/ CallCommands(t)
        \/ AttachQuery(t)
        \/ AttachDevice(t)
        \/ DetachQuery(t)
        \/ DetachDevice(t)

Next == CallHost \/ CallGuest \/ EngineStep

\* The engine alone: its callers make calls one after another.
InitSerial == Init /\ security.enabled

Spec == InitSerial /\ [][Next]_vars

(* ------------------- the engine, called concurrently ------------------ *)

\* Switch calls started in one run of the concurrent specification.
MaxConcCalls == 2

\* Either thread of main() enters a switch whenever it is not inside one:
\* the engine holds no lock (lines 130-142).
StartHost ==
    /\ ncalls < MaxConcCalls
    /\ \E t \in Threads, skip \in BOOLEAN :
          /\ call[t].pc \in {"idle", "returned", "raised"}
          /\ switch_to_host(t, skip)
    /\ UNCHANGED << devices_data, hostdevs, dblAttach, callerVars >>

StartGuest ==
    /\ ncalls < MaxConcCalls
    /\ \E t \in Threads, skip \in BOOLEAN :
          /\ call[t].pc \in {"idle", "returned", "raised"}
          /\ switch_to_guest(t, skip)
    /\ UNCHANGED << devices_data, hostdevs, dblAttach, callerVars >>

NextConc == StartHost \/ StartGuest \/ EngineStep

SpecConc == InitSerial /\ [][NextConc]_vars

(* --------------------------- hotkey monitor --------------------------- *)

\* Key events read in one run.
MaxEvents == 6

\* Times the input device goes away in one run.
MaxUnplugs == 1

\* Failed open attempts counted in one reconnect loop.
MaxOpenFails == 2

\* What the hotkey thread's own steps leave alone when it makes no call.
NoSwitch ==
    UNCHANGED << devices_data, hostdevs, call, last, ncalls, dblAttach, httpVars >>

\* KeyEvent without the grabbed tests of lines 185 and 194.
KeyEventNoGrabTest(code, value) ==
    LET pk == [pressed_keys EXCEPT ![code] = (value # 0)]
        ctrls_pressed == pk[KEY_LEFTCTRL] /\ pk[KEY_RIGHTCTRL]
        meta == pk[KEY_LEFTMETA] \/ pk[KEY_RIGHTMETA]
    IN /\ pressed_keys' = pk
       /\ lastGrab' = "none"
       /\ IF ctrls_pressed
          THEN /\ triggered' = TRUE
               /\ skip_optional' = meta
               /\ metaInCombo' = ((triggered /\ metaInCombo) \/ meta)
               /\ stage' = IF ~triggered /\ stage = "opened" THEN "pressed" ELSE stage
               /\ UNCHANGED << grabbed, monPc, grabFires >>
               /\ NoSwitch
          ELSE IF triggered
          THEN /\ triggered' = FALSE
               /\ grabbed' = TRUE
               /\ grabFires' = grabFires + 1
               /\ stage' = IF stage = "pressed" THEN "fired" ELSE stage
               /\ monPc' = "guest"
               /\ switch_to_guest("evdev", skip_optional)
               /\ UNCHANGED << skip_optional, metaInCombo >>
               /\ UNCHANGED << devices_data, hostdevs, dblAttach, httpVars >>
          ELSE /\ UNCHANGED << triggered, grabbed, skip_optional, monPc,
                               stage, metaInCombo, grabFires >>
               /\ NoSwitch

\* The body of the for loop of evdev_loop, lines 184-197, for one event.
KeyEvent(code, value) ==
    LET pk == [pressed_keys EXCEPT ![code] = (value # 0)]
        ctrls_pressed == pk[KEY_LEFTCTRL] /\ pk[KEY_RIGHTCTRL]
        meta == pk[KEY_LEFTMETA] \/ pk[KEY_RIGHTMETA]
    IN /\ pressed_keys' = pk
       /\ lastGrab' = "none"
       /\ IF ~grabbed /\ ctrls_pressed
          THEN /\ triggered' = TRUE
               /\ skip_optional' = meta
               /\ metaInCombo' = ((triggered /\ metaInCombo) \/ meta)
               /\ stage' = IF ~triggered /\ stage = "opened" THEN "pressed" ELSE stage
               /\ UNCHANGED << grabbed, monPc, grabFires >>
               /\ NoSwitch
          ELSE IF ~grabbed /\ triggered
          THEN /\ triggered' = FALSE
               /\ grabbed' = TRUE
               /\ grabFires' = grabFires + 1
               /\ stage' = IF stage = "pressed" THEN "fired" ELSE stage
               /\ monPc' = "guest"
               /\ switch_to_guest("evdev", skip_optional)
               /\ UNCHANGED << skip_optional, metaInCombo >>
               /\ UNCHANGED << devices_data, hostdevs, dblAttach, httpVars >>
          ELSE /\ UNCHANGED << triggered, grabbed, skip_optional, monPc,
                               stage, metaInCombo, grabFires >>
               /\ NoSwitch

\* evdev_loop, lines 181-184: device.read() yields a key event.
ReadEvent ==
    /\ monPc = "select"
    /\ devPresent
    /\ nevents < MaxEvents
    /\ nevents' = nevents + 1
    /\ \E code \in Keys, value \in KeyValues : KeyEvent(code, value)
    /\ UNCHANGED << devPresent, unplugs, openFails, phys, bothHeld >>

\* evdev_loop, line 196 returning or raising: the loop goes on after a
\* return, line 208 catches an OSError, and any other exception ends the
\* thread.
GuestSwitchEnds ==
    /\ monPc = "guest"
    /\ Finished(call["evdev"])
    /\ monPc' = IF call["evdev"].err = "none" THEN "select"
                ELSE IF call["evdev"].err = "OSError" THEN "reconnect"
                ELSE "dead"
    /\ openFails' = IF call["evdev"].err = "OSError" THEN 0 ELSE openFails
    /\ stage' = IF call["evdev"].err = "OSError" THEN "none" ELSE stage
    /\ UNCHANGED << pressed_keys, triggered, grabbed, skip_optional, devPresent,
                    nevents, unplugs, metaInCombo, grabFires >>
    /\ UNCHANGED << lastGrab, phys, bothHeld >>
    /\ NoSwitch

\* NoData with line 207 passing the monitor's skip_optional on.
NoDataPassesSkip ==
    /\ monPc = "select"
    /\ devPresent
    /\ \E grab_ok \in BOOLEAN :
          IF grabbed /\ grab_ok
          THEN /\ grabbed' = FALSE
               /\ grabFires' = 0
               /\ lastGrab' = "ok"
               /\ monPc' = "host"
               /\ switch_to_host("evdev", skip_optional)
               /\ UNCHANGED << devices_data, hostdevs, dblAttach, httpVars >>
          ELSE /\ lastGrab' = IF grabbed THEN "failed" ELSE "untried"
               /\ UNCHANGED << grabbed, grabFires, monPc >>
               /\ NoSwitch
    /\ UNCHANGED << pressed_keys, triggered, skip_optional, devPresent, nevents,
                    unplugs, openFails, stage, metaInCombo, phys, bothHeld >>

\* evdev_loop, lines 198-207: device.read() raises BlockingIOError. When
\* grabbed, the grab is tried; it raises IOError while another process
\* holds the device.
NoData ==
    /\ monPc = "select"
    /\ devPresent
    /\ \E grab_ok \in BOOLEAN :
          IF grabbed /\ grab_ok
          THEN /\ grabbed' = FALSE
               /\ grabFires' = 0
               /\ lastGrab' = "ok"
               /\ monPc' = "host"
               /\ switch_to_host("evdev", FALSE)
               /\ UNCHANGED << devices_data, hostdevs, dblAttach, httpVars >>
          ELSE /\ lastGrab' = IF grabbed THEN "failed" ELSE "untried"
               /\ UNCHANGED << grabbed, grabFires, monPc >>
               /\ NoSwitch
    /\ UNCHANGED << pressed_keys, triggered, skip_optional, devPresent, nevents,
                    unplugs, openFails, stage, metaInCombo, phys, bothHeld >>

\* evdev_loop, line 207 returning or raising: an exception raised inside the
\* except BlockingIOError handler is not caught by the except OSError beside
\* it, and ends the thread.
HostSwitchEnds ==
    /\ monPc = "host"
    /\ Finished(call["evdev"])
    /\ monPc' = IF call["evdev"].err = "none" THEN "select" ELSE "dead"
    /\ UNCHANGED << pressed_keys, triggered, grabbed, skip_optional, devPresent,
                    nevents, unplugs, openFails, stage, metaInCombo, grabFires >>
    /\ UNCHANGED << lastGrab, phys, bothHeld >>
    /\ NoSwitch

\* ReadError with the monitor's flags set back to their first values before
\* the reconnect loop.
ReadErrorResetsFlags ==
    /\ monPc = "select"
    /\ ~devPresent
    /\ monPc' = "reconnect"
    /\ openFails' = 0
    /\ stage' = "none"
    /\ triggered' = FALSE
    /\ grabbed' = FALSE
    /\ grabFires' = 0
    /\ UNCHANGED << pressed_keys, skip_optional, devPresent,
                    nevents, unplugs, metaInCombo >>
    /\ UNCHANGED << lastGrab, phys, bothHeld >>
    /\ NoSwitch

\* evdev_loop, line 208: device.read() raises OSError, the device is gone.
ReadError ==
    /\ monPc = "select"
    /\ ~devPresent
    /\ monPc' = "reconnect"
    /\ openFails' = 0
    /\ stage' = "none"
    /\ UNCHANGED << pressed_keys, triggered, grabbed, skip_optional, devPresent,
                    nevents, unplugs, metaInCombo, grabFires >>
    /\ UNCHANGED << lastGrab, phys, bothHeld >>
    /\ NoSwitch

\* OpenDevice without the inner try: a failed open ends the thread.
OpenDeviceOnce ==
    /\ monPc = "reconnect"
    /\ IF devPresent
       THEN /\ monPc' = "select"
            /\ stage' = "opened"
            /\ UNCHANGED openFails
       ELSE /\ monPc' = "dead"
            /\ UNCHANGED << openFails, stage >>
    /\ UNCHANGED << pressed_keys, triggered, grabbed, skip_optional, devPresent,
                    nevents, unplugs, metaInCombo, grabFires >>
    /\ UNCHANGED << lastGrab, phys, bothHeld >>
    /\ NoSwitch

\* evdev_loop, lines 209-216: one round of the reconnect loop.
OpenDevice ==
    /\ monPc = "reconnect"
    /\ IF devPresent
       THEN /\ monPc' = "select"
            /\ stage' = "opened"
            /\ UNCHANGED openFails
       ELSE /\ openFails' = IF openFails < MaxOpenFails THEN openFails + 1
                            ELSE openFails
            /\ UNCHANGED << monPc, stage >>
    /\ UNCHANGED << pressed_keys, triggered, grabbed, skip_optional, devPresent,
                    nevents, unplugs, metaInCombo, grabFires >>
    /\ UNCHANGED << lastGrab, phys, bothHeld >>
    /\ NoSwitch

\* The input device is unplugged (or handed to the guest with its hub).
Unplug ==
    /\ devPresent
    /\ unplugs < MaxUnplugs
    /\ devPresent' = FALSE
    /\ unplugs' = unplugs + 1
    /\ UNCHANGED << pressed_keys, triggered, grabbed, skip_optional, monPc,
                    nevents, openFails, stage, metaInCombo, grabFires >>
    /\ UNCHANGED << lastGrab, phys, bothHeld >>
    /\ NoSwitch

\* The input device is back. The descriptor opened before the unplug stays
\* dead (its read keeps raising OSError), so the monitor meets the new node
\* only in the open of line 211.
Replug ==
    /\ ~devPresent
    /\ monPc = "reconnect"
    /\ devPresent' = TRUE
    /\ UNCHANGED << pressed_keys, triggered, grabbed, skip_optional, monPc,
                    nevents, unplugs, openFails, stage, metaInCombo, grabFires >>
    /\ UNCHANGED << lastGrab, phys, bothHeld >>
    /\ NoSwitch

\* The steps of a switch call made by the hotkey thread.
MonitorEngineStep ==
    \/ CallDccutil("evdev")
    \/ CallCommands("evdev")
    \/ AttachQuery("evdev")
    \/ AttachDevice("evdev")
    \/ DetachQuery("evdev")
    \/ DetachDevice("evdev")

NextMon ==
    \/ ReadEvent
    \/ GuestSwitchEnds
    \/ NoData
    \/ HostSwitchEnds
    \/ ReadError
    \/ OpenDevice
    \/ Unplug
    \/ Replug
    \/ MonitorEngineStep

\* The hotkey thread alone, over a guest that starts with two PCI hostdevs
\* or with one.
InitMon ==
    /\ Init
    /\ security.enabled
    /\ hostdevs \in { << PciDev, PciDev >>, << PciDev >> }
    /\ Len(devices_data) = 2

SpecMon == InitMon /\ [][NextMon]_vars

\* The reconnect loop retries every five seconds for as long as the open
\* fails: its next round is always taken.
SpecMonFair == SpecMon /\ WF_vars(OpenDevice)

(* ------------------------------ keyboard ------------------------------ *)

\* The keys the user works in these runs: the two ctrl keys of the combo (a
\* meta key only chooses skip_optional).
WorkedKeys == { KEY_LEFTCTRL, KEY_RIGHTCTRL }

\* Both ctrl keys are held down on the keyboard.
CtrlsHeld(held) == held[KEY_LEFTCTRL] /\ held[KEY_RIGHTCTRL]

\* A key goes down or up on the keyboard and the event reaches the monitor:
\* evdev_loop, lines 181-197, reads it with value 1 for down and 0 for up.
KeyDelivered ==
    /\ monPc = "select"
    /\ devPresent
    /\ nevents < MaxEvents
    /\ nevents' = nevents + 1
    /\ \E code \in WorkedKeys :
          /\ phys' = [phys EXCEPT ![code] = ~phys[code]]
          /\ KeyEvent(code, IF phys[code] THEN 0 ELSE 1)
    /\ bothHeld' = IF monPc' = "guest" THEN FALSE
                   ELSE bothHeld \/ CtrlsHeld(phys')
    /\ UNCHANGED << devPresent, unplugs, openFails >>

\* A key goes down or up while the guest has the keyboard (the device node
\* is gone, or the guest side holds the exclusive grab that line 201 tries
\* to take): no event reaches evdev_loop.
KeyLost ==
    /\ ~devPresent \/ grabbed
    /\ \E code \in WorkedKeys : phys' = [phys EXCEPT ![code] = ~phys[code]]
    /\ bothHeld' = (bothHeld \/ CtrlsHeld(phys'))
    /\ UNCHANGED << pressed_keys, triggered, grabbed, skip_optional, monPc,
                    devPresent, nevents, unplugs, openFails, stage, metaInCombo,
                    grabFires, lastGrab >>
    /\ NoSwitch

NextKeys ==
    \/ KeyDelivered
    \/ KeyLost
    \/ GuestSwitchEnds
    \/ NoData
    \/ HostSwitchEnds
    \/ ReadError
    \/ OpenDevice
    \/ Unplug
    \/ Replug
    \/ MonitorEngineStep

\* The hotkey thread fed by a keyboard: every event it reads is a key going
\* down or up, and it misses those made while the guest has the keyboard.
SpecKeys == InitMon /\ [][NextKeys]_vars

(* --------------------------- control endpoint ------------------------- *)

\* Requests received in one run.
MaxRequests == 2

\* hmac.compare_digest on two str: TypeError when either holds a character
\* outside ASCII, else equal lengths and no differing position (every
\* position is visited).
RECURSIVE Differences(_, _)
Differences(a, b) ==
    IF a = << >> THEN 0
    ELSE (IF Head(a) = Head(b) THEN 0 ELSE 1) + Differences(Tail(a), Tail(b))

IsAscii(a) == \A i \in 1..Len(a) : a[i] < 128

compare_digest(a, b) ==
    IF ~IsAscii(a) \/ ~IsAscii(b) THEN "TypeError"
    ELSE IF Len(a) # Len(b) THEN "False"
    ELSE IF Differences(a, b) = 0 THEN "True"
    ELSE "False"

\* app_switch, lines 149-153: "ok", "403", or "500" for the uncaught
\* TypeError of compare_digest.
Authenticate(secret) ==
    IF ~security.enabled THEN "ok"
    ELSE IF ~secret.present THEN "403"
    ELSE LET c == compare_digest(security.secret, secret.value)
         IN IF c = "TypeError" THEN "500"
            ELSE IF c = "True" THEN "ok"
            ELSE "403"

\* Whether a JSON value can be looked up in a dict: an array is unhashable.
Hashable(value) == value # "[host]"

\* app_switch, lines 160-163: an empty object is falsy, like no body.
Malformed(body) ==
    \/ ~body.json \/ (body.to = "absent" /\ body.skip_optional = "absent")
    \/ body.to = "absent"
    \/ body.to \notin {"host", "guest"}

\* app_switch, lines 160-163, the three tests in their order: "ok", "400",
\* or "500" for the uncaught TypeError of looking an unhashable "to" up in
\* cases.
Validate(body) ==
    IF ~body.json \/ (body.to = "absent" /\ body.skip_optional = "absent")
    THEN "400"
    ELSE IF body.to = "absent" THEN "400"
    ELSE IF ~Hashable(body.to) THEN "500"
    ELSE IF Malformed(body) THEN "400"
    ELSE "ok"

Answer(status) == [status |-> status, success |-> FALSE, error |-> "none"]

\* app_switch, lines 147-167: a request arrives and is handled up to the
\* switch call.
HandleRequest ==
    /\ httpPc = "idle"
    /\ nreqs < MaxRequests
    /\ nreqs' = nreqs + 1
    /\ \E secret \in SecretHeaders, body \in Bodies :
          /\ request' = [secret |-> secret, body |-> body]
          /\ IF Authenticate(secret) # "ok"
             THEN /\ response' = Answer(IF Authenticate(secret) = "403" THEN 403 ELSE 500)
                  /\ UNCHANGED << httpPc, call, last, ncalls >>
             ELSE IF Validate(body) # "ok"
             THEN /\ response' = Answer(IF Validate(body) = "400" THEN 400 ELSE 500)
                  /\ UNCHANGED << httpPc, call, last, ncalls >>
             ELSE /\ response' = NoResponse
                  /\ httpPc' = "switch"
                  /\ IF body.to = "host"
                     THEN switch_to_host("http", body.skip_optional = "true")
                     ELSE switch_to_guest("http", body.skip_optional = "true")
    /\ UNCHANGED << devices_data, hostdevs, dblAttach, monVars, security >>

\* Respond, were the engine's exception left to the framework: 500 for a
\* switch call that raised.
RespondUncaught ==
    /\ httpPc = "switch"
    /\ Finished(call["http"])
    /\ httpPc' = "idle"
    /\ response' = IF call["http"].err = "none"
                   THEN [status |-> 200, success |-> TRUE, error |-> "null"]
                   ELSE Answer(500)
    /\ UNCHANGED << engineVars, monVars, security, request, nreqs >>

\* app_switch, lines 165-171: the switch call returned or raised.
Respond ==
    /\ httpPc = "switch"
    /\ Finished(call["http"])
    /\ httpPc' = "idle"
    /\ response' = [status |-> 200, success |-> TRUE,
                    error |-> IF call["http"].err = "none" THEN "null"
                              ELSE "traceback"]
    /\ UNCHANGED << engineVars, monVars, security, request, nreqs >>

\* The steps of a switch call made by the request handler.
HttpEngineStep ==
    \/ CallDccutil("http")
    \/ CallCommands("http")
    \/ AttachQuery("http")
    \/ AttachDevice("http")
    \/ DetachQuery("http")
    \/ DetachDevice("http")

NextHttp == HandleRequest \/ Respond \/ HttpEngineStep

\* The control endpoint alone, one request at a time.
InitHttpOnly ==
    /\ Init
    /\ hostdevs \in { << PciDev, PciDev >>, << >> }
    /\ Len(devices_data) = 2

SpecHttp == InitHttpOnly /\ [][NextHttp]_vars

(* ------------------------------ claims -------------------------------- *)

\* The ids the configuration names, and those it marks essential.
ConfiguredIds ==
    { << devices_data[i].vendor, devices_data[i].product >> :
        i \in 1..Len(devices_data) }

EssentialIds ==
    { << devices_data[i].vendor, devices_data[i].product >> :
        i \in { j \in 1..Len(devices_data) : devices_data[j].optional # "true" } }

WantedIds(skip) == IF skip THEN EssentialIds ELSE ConfiguredIds

\* The ids of the USB hostdevs of a live list, read off the padded digits.
RECURSIVE DigitsValue(_, _)
DigitsValue(s, acc) ==
    IF s = << >> THEN acc ELSE DigitsValue(Tail(s), 16 * acc + Head(s))

LiveIds(live) ==
    { << DigitsValue(live[i].vendor, 0), DigitsValue(live[i].product, 0) >> :
        i \in { j \in 1..Len(live) : live[j].type = "usb" } }

ReqIds(f, kind) == { f.reqs[i][2] : i \in { j \in 1..Len(f.reqs) : f.reqs[j][1] = kind } }

\* C1: two consecutive switch_to_guest(skip_optional=False) calls, from any
\* live device list: the second issues no attach request, raises no error
\* and leaves the live list as the first call left it (the hypervisor and
\* the external programs refusing nothing in either call).
C1_SecondGuestCallIsNoOp ==
    \A t \in Threads :
        LET f == call[t]
        IN (/\ Finished(f) /\ f.op = "guest" /\ ~f.skip
            /\ f.prev.op = "guest" /\ ~f.prev.skip
            /\ ~f.envfail /\ ~f.prev.envfail)
           => (f.err = "none" /\ f.reqs = << >> /\ hostdevs = f.prev.after)

\* C2 as stated: after a switch call that returned without error, the
\* configured devices on the target side are exactly the requested set.
C2_ExactlyRequested ==
    \A t \in Threads :
        LET f == call[t]
        IN (f.pc = "returned")
           => IF f.op = "guest"
              THEN LiveIds(hostdevs) \cap ConfiguredIds = WantedIds(f.skip)
              ELSE ConfiguredIds \ LiveIds(hostdevs) = WantedIds(f.skip)

\* C2 as amended: after a switch call that returned without error (calls
\* made one after another), every requested device is on the target side,
\* and the configured devices outside the requested set are where they were
\* when the call began.
C2_RequestedOnTargetSide ==
    \A t \in Threads :
        LET f == call[t]
        IN (f.pc = "returned")
           => /\ f.op = "guest" => WantedIds(f.skip) \subseteq LiveIds(hostdevs)
              /\ f.op = "host" => WantedIds(f.skip) \cap LiveIds(hostdevs) = {}
              /\ LiveIds(hostdevs) \ WantedIds(f.skip)
                     = LiveIds(f.live0) \ WantedIds(f.skip)

\* C2 witness: a guest switch with skip_optional returned after a full guest
\* switch, and an optional device is attached although it was not requested.
C2_Witness ==
    \E t \in Threads :
        /\ call[t].pc = "returned" /\ call[t].op = "guest" /\ call[t].skip
        /\ call[t].prev.op = "guest" /\ ~call[t].prev.skip
        /\ call[t].prev.err = "none"
        /\ (ConfiguredIds \ EssentialIds) \cap LiveIds(hostdevs) # {}

\* C3: under every interleaving of two threads' switch calls, no device is
\* sent an attach request while it is attached.
C3_NoAttachWhileAttached == dblAttach = {}

\* C4: switch_to_guest(skip_optional=True) issues attach requests exactly
\* for the essential configured devices that are not attached when it
\* begins, and no request for an optional device (the hypervisor and the
\* external programs refusing nothing).
C4_AttachesExactlyEssential ==
    \A t \in Threads :
        LET f == call[t]
        IN (Finished(f) /\ f.op = "guest" /\ f.skip /\ ~f.envfail)
           => /\ ReqIds(f, "attach") = EssentialIds \ LiveIds(f.live0)
              /\ ReqIds(f, "detach") = {}

\* C5: switch_to_host(skip_optional=False) issues detach requests exactly
\* for the live USB hostdevs whose ids are configured, and no switch call
\* touches a device the configuration does not name (the hypervisor and the
\* external programs refusing nothing).
C5_DetachesExactlyConfigured ==
    \A t \in Threads :
        LET f == call[t]
        IN /\ (Finished(f) /\ f.op = "host" /\ ~f.skip /\ ~f.envfail)
              => /\ ReqIds(f, "detach") = LiveIds(f.live0) \cap ConfiguredIds
                 /\ ReqIds(f, "attach") = {}
           /\ ReqIds(f, "attach") \cup ReqIds(f, "detach") \subseteq ConfiguredIds
           /\ f.op # "none"
              => LiveIds(hostdevs) \ ConfiguredIds = LiveIds(f.live0) \ ConfiguredIds

\* C6: when a meta key was recorded down while both ctrl keys were held, the
\* guest switch fired on the following combo release is passed
\* skip_optional = True, whatever events came between.
C6_MetaStaysCaptured ==
    (monPc = "guest" /\ metaInCombo) => call["evdev"].skip

\* C7: the hotkey monitor makes at most one guest switch per grab: once
\* grabbed is set no key event (a ctrl release, a repeat, a new combo) makes
\* it call switch_to_guest again before grabbed is cleared.
C7_OneGuestSwitchPerGrab ==
    /\ grabFires <= 1
    /\ grabbed <=> grabFires = 1
    /\ monPc = "guest" => grabbed

\* C7 witness: after press(leftCtrl), press(rightCtrl), release(leftCtrl)
\* fired the switch and it returned, the remaining ctrl key was released and
\* read while still grabbed, and there has been one guest switch.
C7_Witness ==
    /\ grabbed
    /\ monPc = "select"
    /\ grabFires = 1
    /\ nevents >= 4
    /\ ~pressed_keys[KEY_LEFTCTRL]
    /\ ~pressed_keys[KEY_RIGHTCTRL]
    /\ call["evdev"].op = "guest"
    /\ call["evdev"].pc = "returned"

\* C8: the hotkey loop never ends; in particular the thread is not left by
\* the exception of a switch call that met a hypervisor failure or could
\* not run an external command.
C8_MonitorSurvivesSwitchErrors ==
    ~(monPc = "dead" /\ call["evdev"].err \in {"libvirtError", "OSError"})

C10_BadSecretIs403 ==
    [][(/\ nreqs' # nreqs
        /\ security.enabled
        /\ \/ ~request'.secret.present
           \/ request'.secret.value # security.secret)
       => /\ response'.status = 403
          /\ httpPc' = "idle"
          /\ call' = call
          /\ ncalls' = ncalls]_vars

\* C11: an authenticated /switch request whose body is empty, has no "to"
\* member, or whose "to" is anything but "host" or "guest" is answered 400
\* and starts no switch call.
C11_BadBodyIs400 ==
    [][(/\ nreqs' # nreqs
        /\ Authenticate(request'.secret) = "ok"
        /\ \/ ~request'.body.json
           \/ request'.body.to = "absent"
           \/ request'.body.to \notin {"host", "guest"})
       => /\ response'.status = 400
          /\ httpPc' = "idle"
          /\ call' = call
          /\ ncalls' = ncalls]_vars

\* C12: an authenticated request naming "host" or "guest" starts the named
\* switch once, with skip_optional false unless the body says true; nothing
\* starts another call before the answer; and the answer is 200 with
\* success true, error null exactly when the call returned without raising.
C12_OneCallAlways200 ==
    /\ [][(/\ nreqs' # nreqs
            /\ Authenticate(request'.secret) = "ok"
            /\ request'.body.json
            /\ request'.body.to \in {"host", "guest"})
           => /\ httpPc' = "switch"
              /\ ncalls' = ncalls + 1
              /\ call'["http"].op = request'.body.to
              /\ call'["http"].skip = (request'.body.skip_optional = "true")
              /\ ~Finished(call'["http"])]_vars
    /\ [][httpPc = "switch"
           => /\ ncalls' = ncalls
              /\ call'["http"].op = call["http"].op
              /\ call'["http"].skip = call["http"].skip
              /\ httpPc' = "idle"
                 => /\ Finished(call["http"])
                    /\ response'.status = 200
                    /\ response'.success
                    /\ response'.error = "null" <=> call["http"].err = "none"
                    /\ response'.error # "null" <=> call["http"].pc = "raised"]_vars

\* C12 witness: the hypervisor refused a detach inside the requested host
\* switch and the request was answered 200 with success true and the
\* traceback as error.
C12_Witness ==
    /\ httpPc = "idle"
    /\ request.body.to = "host"
    /\ call["http"].op = "host"
    /\ call["http"].err = "libvirtError"
    /\ response.status = 200
    /\ response.success
    /\ response.error = "traceback"

\* C13: when the monitor leaves the reconnect loop and reads events again,
\* no key is recorded as pressed.
C13_KeysResetOnReconnect ==
    [][(monPc = "reconnect" /\ monPc' = "select")
       => \A k \in Keys : ~pressed_keys'[k]]_vars

\* C14: the monitor fires switch_to_guest only if both ctrl keys were held
\* down on the keyboard at the same time since its previous guest switch.
C14_FiresOnlyAfterBothHeld ==
    [][(monPc = "select" /\ monPc' = "guest") => bothHeld]_vars

\* The ids of the requests of a call that the hypervisor carried out: all
\* but the last when the call was ended by a hypervisor error.
MovedIds(f) ==
    { f.reqs[i][2] :
        i \in 1..(IF f.err = "libvirtError" THEN Len(f.reqs) - 1 ELSE Len(f.reqs)) }

\* C15: a switch call (calls made one after another) in which a hypervisor
\* request failed has raised, made no request after the failing one and
\* none in the opposite direction; the devices it moved before are where it
\* put them and every other device is where it was when the call began; and
\* a call re-issued after such a failure sends requests only for devices
\* that are not on the target side when it begins.
C15_PartialFailureStays ==
    \A t \in Threads :
        LET f == call[t]
        IN /\ f.envfail => f.pc = "raised" /\ f.err \in {"libvirtError", "OSError"}
           /\ (f.pc = "raised" /\ f.err = "libvirtError")
              => /\ f.reqs # << >>
                 /\ ReqIds(f, IF f.op = "guest" THEN "detach" ELSE "attach") = {}
                 /\ LiveIds(hostdevs)
                       = IF f.op = "guest"
                         THEN LiveIds(f.live0) \cup MovedIds(f)
                         ELSE LiveIds(f.live0) \ MovedIds(f)
                 /\ f.reqs[Len(f.reqs)][2] \in LiveIds(hostdevs) <=> f.op = "host"
           /\ (f.prev.err = "libvirtError" /\ f.prev.op = f.op /\ f.prev.skip = f.skip)
              => /\ f.live0 = f.prev.after
                 /\ ReqIds(f, "attach") \cap LiveIds(f.live0) = {}
                 /\ ReqIds(f, "detach") \subseteq LiveIds(f.live0)
                 /\ Cardinality(ReqIds(f, "attach") \cup ReqIds(f, "detach"))
                       = Len(f.reqs)

\* C15 witness: with three configured devices attached, a host switch
\* detached the first, was refused the second and raised, leaving the third
\* attached; the host switch made again has detached exactly the two left.
C15_Witness ==
    LET f == call["http"]
    IN /\ Len(devices_data) = 3
       /\ f.op = "host" /\ ~f.skip /\ f.pc = "returned"
       /\ f.prev.op = "host" /\ ~f.prev.skip /\ f.prev.err = "libvirtError"
       /\ Cardinality(ConfiguredIds \cap LiveIds(f.live0)) = 2
       /\ ReqIds(f, "detach") = ConfiguredIds \cap LiveIds(f.live0)
       /\ Len(f.reqs) = 2
       /\ ConfiguredIds \cap LiveIds(hostdevs) = {}

\* C16: the monitor starts switch_to_host only from reading, with grabbed
\* set, at a no-data pass whose grab succeeded, clearing grabbed and passing
\* skip_optional = False; grabbed is cleared by nothing else; a pass whose
\* grab failed keeps grabbed and starts no call; and a pass with grabbed
\* clear tries no grab and starts no call.
C16_HostSwitchOnlyOnGrab ==
    /\ [][(ncalls' # ncalls /\ call'["evdev"].op = "host")
           => /\ monPc = "select" /\ monPc' = "host"
              /\ grabbed /\ ~grabbed'
              /\ lastGrab' = "ok"
              /\ ~call'["evdev"].skip]_vars
    /\ [][(grabbed /\ ~grabbed')
           => ncalls' = ncalls + 1 /\ call'["evdev"].op = "host"]_vars
    /\ [][(lastGrab' # lastGrab /\ lastGrab' = "failed")
           => grabbed /\ grabbed' /\ call' = call /\ ncalls' = ncalls]_vars
    /\ [][(lastGrab' # lastGrab /\ lastGrab' = "untried")
           => ~grabbed /\ ~grabbed' /\ call' = call /\ ncalls' = ncalls]_vars
    /\ [](lastGrab = "failed" => grabbed)
    /\ [](lastGrab \in {"untried", "ok"} => ~grabbed)

\* C16 witness: a guest switch made with skip_optional = True returned, a
\* grab succeeded while skip_optional was still set, and the monitor is
\* inside the switch_to_host it started with skip_optional = False.
C16_Witness ==
    /\ monPc = "host"
    /\ lastGrab = "ok"
    /\ ~grabbed
    /\ skip_optional
    /\ call["evdev"].op = "host"
    /\ ~call["evdev"].skip
    /\ call["evdev"].prev.op = "guest"
    /\ call["evdev"].prev.skip
    /\ call["evdev"].prev.err = "none"

\* The program calls a whole switch to `side` makes: every display with the
\* side's input code, in order, then every command of the side's list.
ExpectedLog(side) ==
    [i \in 1..Len(Displays) |-> DdcutilArgs(Displays[i], Displays[i][side])]
        \o [i \in 1..Len(Commands(side)) |-> ShellArgs(Commands(side)[i])]

\* C17: whatever exit statuses the display calls and commands of a switch
\* call ended with, the calls made so far are the first ones of the whole
\* list (every display with the target side's code, then every command of
\* the target side), the call is cut short before the list is done only by
\* a program that could not be run, and the hypervisor is queried or asked
\* for anything only once the whole list has been gone through.
C17_FailedStatusDoesNotAbort ==
    \A t \in Threads :
        LET f == call[t]
            whole == ExpectedLog(f.op)
        IN f.op # "none"
           => /\ Len(f.log) <= Len(whole)
              /\ f.log = SubSeq(whole, 1, Len(f.log))
              /\ f.pc \in {"displays", "commands"} => f.reqs = << >>
              /\ (f.pc \in {"query", "attach", "snapshot", "detach", "returned"}
                    \/ f.reqs # << >>
                    \/ f.err \in {"KeyError", "TypeError", "libvirtError"})
                 => f.log = whole
              /\ (f.pc = "raised" /\ f.log # whole)
                 => f.err = "OSError" /\ f.envfail
              /\ (f.soft /\ ~f.envfail /\ Finished(f)) => f.log = whole

\* C17 witness: a guest switch in which a program ended with a failure exit
\* status went through both displays and the guest command, sent an attach
\* request and returned.
C17_Witness ==
    \E t \in Threads :
        LET f == call[t]
        IN /\ f.op = "guest"
           /\ f.soft
           /\ f.pc = "returned"
           /\ f.log = ExpectedLog("guest")
           /\ Len(f.log) = 3
           /\ f.reqs # << >>

\* C18: when a switch_to_guest and a switch_to_host with the same
\* skip_optional, made by the two threads, have both returned, the requested
\* devices are all attached or all detached.
C18_OverlapEndsOnOneSide ==
    \A t, u \in Threads :
        LET f == call[t]
            g == call[u]
        IN (/\ f.pc = "returned" /\ g.pc = "returned"
            /\ f.op = "guest" /\ g.op = "host"
            /\ f.skip = g.skip)
           => \/ WantedIds(f.skip) \subseteq LiveIds(hostdevs)
              \/ WantedIds(f.skip) \cap LiveIds(hostdevs) = {}

\* C19: the monitor's switch calls alternate: a guest switch follows no
\* call or a host switch, a host switch follows a guest switch; a guest
\* switch starts with grabbed clear and sets it, a host switch starts with
\* grabbed set and clears it; so grabbed is set exactly when the monitor's
\* latest call is a guest switch.
C19_SwitchesAlternate ==
    /\ [](call["evdev"].op = "guest" => call["evdev"].prev.op \in {"none", "host"})
    /\ [](call["evdev"].op = "host" => call["evdev"].prev.op = "guest")
    /\ [](grabbed <=> call["evdev"].op = "guest")
    /\ [][(ncalls' # ncalls)
           => /\ ncalls' = ncalls + 1
              /\ Finished(call["evdev"]) \/ call["evdev"].op = "none"
              /\ call'["evdev"].prev.op = call["evdev"].op
              /\ IF call'["evdev"].op = "guest"
                 THEN ~grabbed /\ grabbed'
                 ELSE grabbed /\ ~grabbed']_vars

\* C19 witness: the monitor is inside its second guest switch, begun after
\* a device loss and a reconnect, its calls so far being guest, host, guest.
C19_Witness ==
    /\ monPc = "guest"
    /\ ncalls = 3
    /\ unplugs >= 1
    /\ devPresent
    /\ stage = "fired"
    /\ grabbed
    /\ call["evdev"].op = "guest"
    /\ call["evdev"].prev.op = "host"

\* C20: whenever a switch call asks for the live devices, get_devices
\* answers without error with exactly the USB hostdevs of the live list, in
\* order; so no switch call is ended by an error of get_devices.
C20_GetDevicesTotal ==
    \A t \in Threads :
        /\ call[t].pc \in {"query", "snapshot"}
           => get_devices(hostdevs)
                = [err |-> "none",
                   devs |-> SelectSeq(hostdevs, LAMBDA dev : dev.type = "usb")]
        /\ call[t].err \notin {"KeyError", "TypeError"}

====
